---- MODULE Spec2Model ----
(***************************************************************************)
(* Ledger projection engine of the budget application (src/app.js):        *)
(* parseDateInput, toDateInputValue, addDays, addMonths, daysInMonth,      *)
(* generateOccurrences and computeLedger.                                  *)
(*                                                                         *)
(* Representation.                                                         *)
(*  - A JavaScript Date is its UTC day number (days since 1970-01-01);     *)
(*    every Date the engine handles is a UTC midnight.  Invalid Date is    *)
(*    InvalidDate and a null parse result is Null.  Dates before 1970 are  *)
(*    outside the model.                                                   *)
(*  - A date string is the sequence of the numbers its '-'-separated       *)
(*    parts convert to (Number(part)); a part that is not numeric is       *)
(*    NaNPart; a missing (undefined/null) string is Missing.               *)
(*  - Money is an integer number of mills (1/1000 of a currency unit):     *)
(*    one cent is 10 mills.  Arithmetic is exact; the binary rounding      *)
(*    error of doubles is abstracted away.                                 *)
(*  - A name is a sequence of one-character strings.                       *)
(***************************************************************************)
EXTENDS Integers, Sequences, FiniteSets, TLC

VARIABLES
    \* one call of generateOccurrences(txn, rangeEnd)
    occTxn, occRangeEnd, occCurrent, occurrences, occPc,
    \* one call of computeLedger(startDate, endDate, startingBalance, txns)
    startDate, endDate, startingBalance, txns,
    balance, dailyIncome, dailyExpenses, ledger, pc,
    \* the caller of computeLedger: calls made so far, the first result
    calls, firstLedger,
    \* one deployment of the application: which program runs, its account
    \* in memory and the copy it keeps in its persistent store
    variant, account, persisted,
    \* the write queue of the JSON-file server: one promise per saveState
    \* call, the writes in the order they started, each request's position
    saves, writeLog, reqPc,
    \* the multi-account client: state (accounts, accountOrder,
    \* currentAccountId) and the payload in localStorage
    clientState, storage,
    \* the JSON-file server: state.accounts, the content of the data file,
    \* and what each request's handler holds across its awaits
    accounts, dataFile, reqInfo,
    \* the SQLite server: the rows of the accounts table, and each request's
    \* handler
    rows, sqlReq

occVars == <<occTxn, occRangeEnd, occCurrent, occurrences, occPc>>
ledgerVars == <<startDate, endDate, startingBalance, txns,
                balance, dailyIncome, dailyExpenses, ledger, pc>>
callerVars == <<calls, firstLedger>>
storeVars == <<variant, account, persisted>>
saveVars == <<saves, writeLog, reqPc>>
clientVars == <<clientState, storage>>
serverVars == <<accounts, dataFile, reqInfo>>
sqlVars == <<rows, sqlReq>>
vars == <<occTxn, occRangeEnd, occCurrent, occurrences, occPc,
          startDate, endDate, startingBalance, txns,
          balance, dailyIncome, dailyExpenses, ledger, pc,
          calls, firstLedger, variant, account, persisted,
          saves, writeLog, reqPc, clientState, storage,
          accounts, dataFile, reqInfo, rows, sqlReq>>

\* the parts of the state a run of another component never touches
CallerIdle == calls = 0 /\ firstLedger = << >>
StoreIdle ==
    /\ variant = "none"
    /\ account = [startingBalance |-> 0, transactions |-> << >>]
    /\ persisted = [startingBalance |-> 0, transactions |-> << >>]
SaveIdle == saves = << >> /\ writeLog = << >> /\ reqPc = << >>
ClientIdle == clientState = << >> /\ storage = << >>
ServerIdle == accounts = << >> /\ dataFile = << >> /\ reqInfo = << >>
SqlIdle == rows = << >> /\ sqlReq = << >>

----------------------------------------------------------------------------
(* JavaScript values                                                       *)

Null == -2
InvalidDate == -1
NaNPart == -1
Missing == << >>

Min(a, b) == IF a <= b THEN a ELSE b

\* slip: the comparison written `<`
DateLeqStrict(a, b) == a # InvalidDate /\ b # InvalidDate /\ a < b

\* slip: the comparison lets one more day through
DateLeqLoose(a, b) == a # InvalidDate /\ b # InvalidDate /\ a <= b + 1

\* Relational comparison of two Dates: false as soon as one side is NaN.
DateLeq(a, b) == a # InvalidDate /\ b # InvalidDate /\ a <= b
DateLt(a, b) == a # InvalidDate /\ b # InvalidDate /\ a < b

----------------------------------------------------------------------------
(* The UTC calendar of Date                                                *)

IsLeapYear(y) == (y % 4 = 0 /\ y % 100 # 0) \/ y % 400 = 0

MonthLength(y, m) ==
    IF m = 1 THEN (IF IsLeapYear(y) THEN 29 ELSE 28)
    ELSE IF m \in {3, 5, 8, 10} THEN 30 ELSE 31

LeapYearsBefore(y) == ((y - 1) \div 4) - ((y - 1) \div 100) + ((y - 1) \div 400)

DayFromYear(y) == 365 * (y - 1970) + LeapYearsBefore(y) - LeapYearsBefore(1970)

\* days of a common year before month m (0 = January)
CommonDaysBefore == <<0, 31, 59, 90, 120, 151, 181, 212, 243, 273, 304, 334>>

DaysBeforeMonth(y, m) ==
    CommonDaysBefore[m + 1] + (IF m > 1 /\ IsLeapYear(y) THEN 1 ELSE 0)

\* An intermediate value that is used more than once is bound through a
\* singleton set (x \in {e}), so that it is computed once.
Only(S) == CHOOSE x \in S : TRUE

\* Date.UTC(year, month, day): month and day outside their range carry over.
DateUTC(y, m, d) ==
    Only({ DayFromYear(ym) + DaysBeforeMonth(ym, mn) + (d - 1) :
           ym \in {y + (m \div 12)}, mn \in {m % 12} })

getUTCFullYear(t) ==
    CHOOSE y \in (1970 + (t \div 366)) .. (1971 + (t \div 365)) :
        DayFromYear(y) <= t /\ t < DayFromYear(y + 1)

\* the month of year y that holds the day at offset dayInYear
MonthOfYearDay(y, dayInYear) ==
    CHOOSE m \in (dayInYear \div 31) .. Min(11, dayInYear \div 28) :
        /\ DaysBeforeMonth(y, m) <= dayInYear
        /\ dayInYear < DaysBeforeMonth(y, m) + MonthLength(y, m)

getUTCMonth(t) ==
    Only({ Only({ MonthOfYearDay(y, dayInYear) :
                  dayInYear \in {t - DayFromYear(y)} }) :
           y \in {getUTCFullYear(t)} })

getUTCDate(t) ==
    Only({ t - (DayFromYear(y) + DaysBeforeMonth(y, m)) + 1 :
           y \in {getUTCFullYear(t)}, m \in {getUTCMonth(t)} })

\* date.setUTCDate(day)
setUTCDate(t, day) == DateUTC(getUTCFullYear(t), getUTCMonth(t), day)

\* date.setUTCMonth(month, day)
setUTCMonth(t, month, day) == DateUTC(getUTCFullYear(t), month, day)

----------------------------------------------------------------------------
(* Date helpers of the application                                         *)

\* slip: the biweekly entry copied from the weekly one
frequencyStepsSlip ==
    [ single     |-> [type |-> "single", days |-> 0,  months |-> 0],
      weekly     |-> [type |-> "",       days |-> 7,  months |-> 0],
      biweekly   |-> [type |-> "",       days |-> 7,  months |-> 0],
      every14    |-> [type |-> "",       days |-> 14, months |-> 0],
      monthly    |-> [type |-> "",       days |-> 0,  months |-> 1],
      quarterly  |-> [type |-> "",       days |-> 0,  months |-> 3],
      semiannual |-> [type |-> "",       days |-> 0,  months |-> 6],
      annual     |-> [type |-> "",       days |-> 0,  months |-> 12] ]

frequencySteps ==
    [ single     |-> [type |-> "single", days |-> 0,  months |-> 0],
      weekly     |-> [type |-> "",       days |-> 7,  months |-> 0],
      biweekly   |-> [type |-> "",       days |-> 14, months |-> 0],
      every14    |-> [type |-> "",       days |-> 14, months |-> 0],
      monthly    |-> [type |-> "",       days |-> 0,  months |-> 1],
      quarterly  |-> [type |-> "",       days |-> 0,  months |-> 3],
      semiannual |-> [type |-> "",       days |-> 0,  months |-> 6],
      annual     |-> [type |-> "",       days |-> 0,  months |-> 12] ]

\* A NaN part makes Date.UTC return NaN: the result is an Invalid Date object.
parseDateInput(value) ==
    IF value = Missing \/ Len(value) # 3 THEN Null
    ELSE IF NaNPart \in {value[1], value[2], value[3]} THEN InvalidDate
    ELSE DateUTC(value[1], value[2] - 1, value[3])

toDateInputValue(date) ==
    << getUTCFullYear(date), getUTCMonth(date) + 1, getUTCDate(date) >>

\* slip: the step is one day short
addDaysShort(date, days) == setUTCDate(date, getUTCDate(date) + days - 1)

addDays(date, days) == setUTCDate(date, getUTCDate(date) + days)

daysInMonth(year, month) ==
    Only({ getUTCDate(last) : last \in {DateUTC(year, month + 1, 0)} })

\* slip: the month is set while the day-of-month is kept, without clamping
addMonthsOverflow(date, months) ==
    setUTCMonth(date, getUTCMonth(date) + months, getUTCDate(date))

\* slip: a date on the last day of its month is moved to the last day of
\* the target month
addMonthsSticky(date, months) ==
    LET day == getUTCDate(date)
        atEnd == day = daysInMonth(getUTCFullYear(date), getUTCMonth(date))
        next == setUTCMonth(date, getUTCMonth(date) + months, 1)
        last == daysInMonth(getUTCFullYear(next), getUTCMonth(next))
    IN setUTCDate(next, IF atEnd THEN last ELSE Min(day, last))

addMonths(date, months) ==
    LET day == getUTCDate(date)
    IN Only({ LET month == getUTCMonth(next)
              IN setUTCDate(next,
                            Min(day, daysInMonth(getUTCFullYear(next), month))) :
              next \in {setUTCMonth(date, getUTCMonth(date) + months, 1)} })

\* names every object inherits from Object.prototype: the lookup
\* frequencySteps[name] finds a function, which has no type, days or months
InheritedKeys == {"constructor", "toString", "valueOf", "hasOwnProperty"}

\* slip: the fallback of the lookup is the weekly step
StepOfFallbackWeekly(frequency) ==
    IF frequency \in DOMAIN frequencySteps THEN frequencySteps[frequency]
    ELSE IF frequency \in InheritedKeys
         THEN [type |-> "", days |-> 0, months |-> 0]
         ELSE frequencySteps.weekly

\* frequencySteps[txn.frequency] || frequencySteps.single
StepOf(frequency) ==
    IF frequency \in DOMAIN frequencySteps THEN frequencySteps[frequency]
    ELSE IF frequency \in InheritedKeys
         THEN [type |-> "", days |-> 0, months |-> 0]
         ELSE frequencySteps.single

\* One pass through the body of the while loop after the push: the next
\* value of `current`, or Break when the loop is left by a break statement.
Break == -3

\* slip: the branch for steps in months is missing
NextOccurrenceNoMonths(cur, frequency) ==
    LET step == StepOf(frequency)
    IN IF step.type = "single" \/ frequency = "single" THEN Break
       ELSE IF step.days # 0 THEN addDays(cur, step.days)
       ELSE Break

NextOccurrence(cur, frequency) ==
    LET step == StepOf(frequency)
    IN IF step.type = "single" \/ frequency = "single" THEN Break
       ELSE IF step.days # 0 THEN addDays(cur, step.days)
       ELSE IF step.months # 0 THEN addMonths(cur, step.months)
       ELSE Break

RECURSIVE OccurrenceLoop(_, _, _, _)
OccurrenceLoop(cur, end, frequency, occs) ==
    IF ~DateLeq(cur, end) THEN occs
    ELSE LET next == NextOccurrence(cur, frequency)
         IN IF next = Break THEN Append(occs, cur)
            ELSE OccurrenceLoop(next, end, frequency, Append(occs, cur))

generateOccurrences(txn, rangeEnd) ==
    LET cur == parseDateInput(txn.startDate)
    IN IF cur = Null THEN << >>
       ELSE OccurrenceLoop(cur, rangeEnd, txn.frequency, << >>)

----------------------------------------------------------------------------
(* Ledger builder                                                          *)

\* Math.round(x * 100) / 100 on mills: the nearest cent, a half rounds up.
RoundCents(x) == 10 * ((x + 5) \div 10)

\* map.get(key) || []
MapGet(map, key) == IF key \in DOMAIN map THEN map[key] ELSE << >>

\* map.set(key, list)
MapSet(map, key, list) ==
    [k \in (DOMAIN map) \cup {key} |-> IF k = key THEN list ELSE map[k]]

\* slip: an occurrence before the window is folded into the balance and
\* also bucketed on the first day of the window
ClassifyOccurrenceOverdue(acc, txn, occurrence, startUTC, endUTC) ==
    LET key == IF DateLt(occurrence, startUTC) THEN startUTC ELSE occurrence
        folded == IF DateLt(occurrence, startUTC)
                  THEN [acc EXCEPT !.balance =
                           RoundCents(@ + (IF txn.type = "income"
                                           THEN txn.amount ELSE -txn.amount))]
                  ELSE acc
    IN IF DateLeq(occurrence, endUTC)
       THEN IF txn.type = "income"
            THEN [folded EXCEPT !.dailyIncome =
                     MapSet(@, key, Append(MapGet(@, key), txn))]
            ELSE [folded EXCEPT !.dailyExpenses =
                     MapSet(@, key, Append(MapGet(@, key), txn))]
       ELSE folded

\* slip: the bucket of a day is replaced, not extended
ClassifyOccurrenceKeepLast(acc, txn, occurrence, startUTC, endUTC) ==
    LET key == occurrence
    IN IF DateLt(occurrence, startUTC)
       THEN [acc EXCEPT !.balance =
                RoundCents(@ + (IF txn.type = "income" THEN txn.amount ELSE -txn.amount))]
       ELSE IF DateLeq(startUTC, occurrence) /\ DateLeq(occurrence, endUTC)
       THEN IF txn.type = "income"
            THEN [acc EXCEPT !.dailyIncome = MapSet(@, key, <<txn>>)]
            ELSE [acc EXCEPT !.dailyExpenses = MapSet(@, key, <<txn>>)]
       ELSE acc

\* The body of occurrences.forEach for one occurrence, on the accumulated
\* balance and the two maps.
ClassifyOccurrence(acc, txn, occurrence, startUTC, endUTC) ==
    LET key == occurrence
    IN IF DateLt(occurrence, startUTC)
       THEN [acc EXCEPT !.balance =
                RoundCents(@ + (IF txn.type = "income" THEN txn.amount ELSE -txn.amount))]
       ELSE IF DateLeq(startUTC, occurrence) /\ DateLeq(occurrence, endUTC)
       THEN IF txn.type = "income"
            THEN [acc EXCEPT !.dailyIncome =
                     MapSet(@, key, Append(MapGet(@, key), txn))]
            ELSE [acc EXCEPT !.dailyExpenses =
                     MapSet(@, key, Append(MapGet(@, key), txn))]
       ELSE acc

RECURSIVE ClassifyOccurrences(_, _, _, _, _, _)
ClassifyOccurrences(acc, txn, occs, i, startUTC, endUTC) ==
    IF i > Len(occs) THEN acc
    ELSE ClassifyOccurrences(
             ClassifyOccurrence(acc, txn, occs[i], startUTC, endUTC),
             txn, occs, i + 1, startUTC, endUTC)

\* txns.forEach: every transaction's occurrences up to endUTC, in list order
RECURSIVE FoldTransactions(_, _, _, _, _)
FoldTransactions(acc, list, i, startUTC, endUTC) ==
    IF i > Len(list) THEN acc
    ELSE FoldTransactions(
             ClassifyOccurrences(acc, list[i],
                 generateOccurrences(list[i], endUTC), 1, startUTC, endUTC),
             list, i + 1, startUTC, endUTC)

\* reduce((sum, x) => sum + x.amount, 0)
RECURSIVE SumAmounts(_)
SumAmounts(list) ==
    IF list = << >> THEN 0 ELSE list[1].amount + SumAmounts(Tail(list))

Lower == <<"a", "b", "c", "d", "e", "f", "g", "h", "i", "j", "k", "l", "m",
           "n", "o", "p", "q", "r", "s", "t", "u", "v", "w", "x", "y", "z">>
Upper == <<"A", "B", "C", "D", "E", "F", "G", "H", "I", "J", "K", "L", "M",
           "N", "O", "P", "Q", "R", "S", "T", "U", "V", "W", "X", "Y", "Z">>

\* collation weights of a letter: the letter, then its case (lower first)
LetterOf(c) == CHOOSE i \in 1 .. 26 : Lower[i] = c \/ Upper[i] = c
CaseOf(c) == IF \E i \in 1 .. 26 : Upper[i] = c THEN 1 ELSE 0

RECURSIVE CompareLevel(_, _, _, _)
CompareLevel(a, b, i, level) ==
    IF i > Len(a) /\ i > Len(b) THEN 0
    ELSE IF i > Len(a) THEN -1
    ELSE IF i > Len(b) THEN 1
    ELSE LET wa == IF level = 1 THEN LetterOf(a[i]) ELSE CaseOf(a[i])
             wb == IF level = 1 THEN LetterOf(b[i]) ELSE CaseOf(b[i])
         IN IF wa < wb THEN -1
            ELSE IF wa > wb THEN 1
            ELSE CompareLevel(a, b, i + 1, level)

\* a.localeCompare(b) on names made of unaccented Latin letters: the letters
\* decide, and between names with the same letters the case decides.
localeCompare(a, b) ==
    LET letters == CompareLevel(a, b, 1, 1)
    IN IF letters # 0 THEN letters ELSE CompareLevel(a, b, 1, 2)

\* Array.prototype.sort((a, b) => a.name.localeCompare(b.name)): stable.
RECURSIVE InsertSorted(_, _)
InsertSorted(sorted, item) ==
    IF sorted = << >> THEN <<item>>
    ELSE LET last == sorted[Len(sorted)]
         IN IF localeCompare(last.name, item.name) > 0
            THEN Append(InsertSorted(SubSeq(sorted, 1, Len(sorted) - 1), item), last)
            ELSE Append(sorted, item)

RECURSIVE SortByName(_)
SortByName(list) ==
    IF list = << >> THEN << >>
    ELSE InsertSorted(SortByName(SubSeq(list, 1, Len(list) - 1)), list[Len(list)])

\* slip: the ending balance is computed from the raw expense amounts and
\* not rounded
DayEntryUnrounded(cur, bal, incomeMap, expenseMap) ==
    LET key == cur
        startBal == RoundCents(bal)
        incomes == MapGet(incomeMap, key)
        totalIncome == RoundCents(SumAmounts(incomes))
        expenses == SortByName([i \in 1 .. Len(MapGet(expenseMap, key)) |->
                        [name |-> MapGet(expenseMap, key)[i].name,
                         amount |-> MapGet(expenseMap, key)[i].amount]])
    IN [date |-> cur,
        startingBalance |-> startBal,
        totalIncome |-> totalIncome,
        endingBalance |-> startBal + totalIncome - SumAmounts(expenses),
        expenses |-> expenses]

\* One pass of the while loop over the days: the entry of day `cur`, made
\* from the balance carried into it.
DayEntry(cur, bal, incomeMap, expenseMap) ==
    LET key == cur
        startBal == RoundCents(bal)
        incomes == MapGet(incomeMap, key)
        totalIncome == RoundCents(SumAmounts(incomes))
        expenses == SortByName([i \in 1 .. Len(MapGet(expenseMap, key)) |->
                        [name |-> MapGet(expenseMap, key)[i].name,
                         amount |-> MapGet(expenseMap, key)[i].amount]])
        totalExpenses == RoundCents(SumAmounts(expenses))
    IN [date |-> cur,
        startingBalance |-> startBal,
        totalIncome |-> totalIncome,
        endingBalance |-> RoundCents(startBal + totalIncome - totalExpenses),
        expenses |-> expenses]

\* slip: the loop condition written `<`, the last day is left out
RECURSIVE WalkDaysExclusive(_, _, _, _, _, _)
WalkDaysExclusive(cur, endUTC, bal, incomeMap, expenseMap, entries) ==
    IF ~DateLt(cur, endUTC) THEN entries
    ELSE LET entry == DayEntry(cur, bal, incomeMap, expenseMap)
         IN WalkDaysExclusive(setUTCDate(cur, getUTCDate(cur) + 1), endUTC,
                              entry.endingBalance, incomeMap, expenseMap,
                              Append(entries, entry))

RECURSIVE WalkDays(_, _, _, _, _, _)
WalkDays(cur, endUTC, bal, incomeMap, expenseMap, entries) ==
    IF ~DateLeq(cur, endUTC) THEN entries
    ELSE LET entry == DayEntry(cur, bal, incomeMap, expenseMap)
         IN WalkDays(setUTCDate(cur, getUTCDate(cur) + 1), endUTC,
                     entry.endingBalance, incomeMap, expenseMap,
                     Append(entries, entry))

\* the state of computeLedger when the forEach over txns has finished
FoldLedger(start, end, startBal, list) ==
    LET startUTC == parseDateInput(toDateInputValue(start))
        endUTC == parseDateInput(toDateInputValue(end))
    IN FoldTransactions(
           [balance |-> startBal, dailyIncome |-> << >>, dailyExpenses |-> << >>],
           list, 1, startUTC, endUTC)

computeLedger(start, end, startBal, list) ==
    LET startUTC == parseDateInput(toDateInputValue(start))
        endUTC == parseDateInput(toDateInputValue(end))
        folded == FoldLedger(start, end, startBal, list)
    IN WalkDays(startUTC, endUTC, folded.balance,
                folded.dailyIncome, folded.dailyExpenses, << >>)

----------------------------------------------------------------------------
(* Inputs of the occurrence generator                                      *)

MaxRangeQuarters == 9

Frequencies ==
    {"single", "weekly", "biweekly", "every14",
     "monthly", "quarterly", "semiannual", "annual"}

\* frequency strings that are not keys of frequencySteps
UnknownFrequencies == {"daily", "", "constructor"}

OccYears == {2023, 2024}

\* what a date input can hold, and strings that are not dates at all
WellFormedDates ==
    {<<y, m, d>> : y \in OccYears, m \in 1 .. 12, d \in {1, 29, 30, 31}}

MalformedDates ==
    { Missing, <<2024, 1>>, <<2024, 1, 1, 1>>, <<0>>,
      <<NaNPart, 1, 1>>, <<2024, NaNPart, 1>>, <<2024, 1, NaNPart>> }

OccStartDates == WellFormedDates \cup MalformedDates \cup {<<2024, 13, 1>>, <<2024, 1, 0>>}

OccRangeEnds ==
    {DateUTC(2023, 3 * q, 0) : q \in 0 .. MaxRangeQuarters}
        \cup {DateUTC(2024, 0, 22)}

Salary(start, frequency) ==
    [type |-> "income", name |-> <<"S">>, amount |-> 2000000,
     startDate |-> start, frequency |-> frequency]

----------------------------------------------------------------------------------------------------------------------------------------
(* One call of generateOccurrences(occTxn, occRangeEnd), one loop pass per *)
(* step.                                                                   *)

OccInit ==
    /\ occTxn \in {Salary(s, f) : s \in OccStartDates,
                                  f \in Frequencies \cup UnknownFrequencies}
    /\ occRangeEnd \in OccRangeEnds
    /\ occCurrent = Null
    /\ occurrences = << >>
    /\ occPc = "parse"
    /\ startDate = 0 /\ endDate = 0 /\ startingBalance = 0 /\ txns = << >>
    /\ balance = 0 /\ dailyIncome = << >> /\ dailyExpenses = << >>
    /\ ledger = << >> /\ pc = "idle"
    /\ CallerIdle /\ StoreIdle /\ SaveIdle
    /\ ClientIdle /\ ServerIdle /\ SqlIdle

\* let current = parseDateInput(txn.startDate); if (!current) return occurrences;
OccParse ==
    /\ occPc = "parse"
    /\ occCurrent' = parseDateInput(occTxn.startDate)
    /\ occPc' = IF occCurrent' = Null THEN "done" ELSE "loop"
    /\ UNCHANGED <<occTxn, occRangeEnd, occurrences>>
    /\ UNCHANGED <<ledgerVars, callerVars, storeVars, saveVars>>
    /\ UNCHANGED <<clientVars, serverVars, sqlVars>>

\* one pass of while (current <= end) { push; step or break }
OccIterate ==
    /\ occPc = "loop"
    /\ DateLeq(occCurrent, occRangeEnd)
    /\ occurrences' = Append(occurrences, occCurrent)
    /\ LET next == NextOccurrence(occCurrent, occTxn.frequency)
       IN IF next = Break
          THEN occPc' = "done" /\ UNCHANGED occCurrent
          ELSE occPc' = "loop" /\ occCurrent' = next
    /\ UNCHANGED <<occTxn, occRangeEnd>>
    /\ UNCHANGED <<ledgerVars, callerVars, storeVars, saveVars>>
    /\ UNCHANGED <<clientVars, serverVars, sqlVars>>

\* the loop condition fails: return occurrences
OccReturn ==
    /\ occPc = "loop"
    /\ ~DateLeq(occCurrent, occRangeEnd)
    /\ occPc' = "done"
    /\ UNCHANGED <<occTxn, occRangeEnd, occCurrent, occurrences>>
    /\ UNCHANGED <<ledgerVars, callerVars, storeVars, saveVars>>
    /\ UNCHANGED <<clientVars, serverVars, sqlVars>>

OccNext == OccParse \/ OccIterate \/ OccReturn

SpecOcc == OccInit /\ [][OccNext]_vars

\* The same call, entered from its caller: the arguments are bound by the
\* call step.  The call runs to completion: nothing suspends a synchronous
\* function.
OccCallerInit ==
    /\ occTxn = Salary(Missing, "single") /\ occRangeEnd = 0
    /\ occCurrent = Null
    /\ occurrences = << >>
    /\ occPc = "call"
    /\ startDate = 0 /\ endDate = 0 /\ startingBalance = 0 /\ txns = << >>
    /\ balance = 0 /\ dailyIncome = << >> /\ dailyExpenses = << >>
    /\ ledger = << >> /\ pc = "idle"
    /\ CallerIdle /\ StoreIdle /\ SaveIdle
    /\ ClientIdle /\ ServerIdle /\ SqlIdle

\* generateOccurrences(txn, rangeEnd)
OccCall ==
    /\ occPc = "call"
    /\ occTxn' \in {Salary(s, f) : s \in OccStartDates,
                                   f \in Frequencies \cup UnknownFrequencies}
    /\ occRangeEnd' \in OccRangeEnds
    /\ occPc' = "parse"
    /\ UNCHANGED <<occCurrent, occurrences>>
    /\ UNCHANGED <<ledgerVars, callerVars, storeVars, saveVars>>
    /\ UNCHANGED <<clientVars, serverVars, sqlVars>>

OccFairNext == OccCall \/ OccParse \/ OccIterate \/ OccReturn

SpecOccFair == OccCallerInit /\ [][OccFairNext]_vars /\ WF_vars(OccFairNext)

----------------------------------------------------------------------------
(* Inputs of the ledger builder                                            *)

MaxTxns == 2
MaxWindowDays == 2

Txn(type, name, amount, start, frequency) ==
    [type |-> type, name |-> name, amount |-> amount,
     startDate |-> start, frequency |-> frequency]

SalaryName == <<"S", "a", "l", "a", "r", "y">>
RentName == <<"R", "e", "n", "t">>
ZooName == <<"Z", "o", "o">>
AppleName == <<"A", "p", "p", "l", "e">>
appleName == <<"a", "p", "p", "l", "e">>
TipName == <<"T", "i", "p">>
GiftName == <<"G", "i", "f", "t">>

\* Amounts are whatever parseFloat made of the amount field: the transaction
\* form stores them as entered, so fractions of a cent occur.
TxnCatalogue ==
    { Txn("income",  SalaryName, 2000000, <<2024, 1, 1>>,   "monthly"),
      Txn("expense", ZooName,    5,       <<2024, 1, 1>>,   "weekly"),
      Txn("expense", AppleName,  0,       <<2024, 1, 8>>,   "single"),
      Txn("expense", appleName,  12340,   <<2023, 12, 25>>, "biweekly"),
      Txn("income",  TipName,    4,       <<2023, 12, 25>>, "weekly"),
      Txn("expense", ZooName,    250000,  <<2024, 1, 31>>,  "monthly"),
      Txn("income",  GiftName,   100000,  <<2024, 2, 30>>,  "single") }

RECURSIVE SeqsUpTo(_, _)
SeqsUpTo(S, n) ==
    IF n = 0 THEN {<< >>}
    ELSE LET shorter == SeqsUpTo(S, n - 1)
         IN shorter \cup {Append(q, x) : q \in shorter, x \in S}

WindowStarts ==
    { DateUTC(2024, 0, 1), DateUTC(2024, 0, 8),
      DateUTC(2024, 0, 31), DateUTC(2024, 1, 28) }

StartingBalances == {1000000, -15}

----------------------------------------------------------------------------
(* One call of computeLedger(startDate, endDate, startingBalance, txns)    *)

Init ==
    /\ \/ /\ txns \in SeqsUpTo(TxnCatalogue, MaxTxns)
          /\ startDate \in WindowStarts
          /\ \E n \in -1 .. MaxWindowDays : endDate = startDate + n
          /\ startingBalance \in StartingBalances
       \/ /\ txns = << Txn("income",  SalaryName, 2000000, <<2024, 1, 1>>, "monthly"),
                       Txn("expense", RentName,   1500000, <<2024, 1, 1>>, "monthly") >>
          /\ startDate = DateUTC(2024, 0, 1)
          /\ endDate = DateUTC(2024, 1, 1)
          /\ startingBalance = 1000000
    /\ balance = startingBalance
    /\ dailyIncome = << >> /\ dailyExpenses = << >>
    /\ ledger = << >>
    /\ pc = "fold"
    /\ occTxn = Salary(Missing, "single") /\ occRangeEnd = 0
    /\ occCurrent = Null /\ occurrences = << >> /\ occPc = "idle"
    /\ CallerIdle /\ StoreIdle /\ SaveIdle
    /\ ClientIdle /\ ServerIdle /\ SqlIdle

StartUTC == parseDateInput(toDateInputValue(startDate))
EndUTC == parseDateInput(toDateInputValue(endDate))

\* txns.forEach(...): fold the occurrences before the window into the
\* balance and bucket those inside it by day
Fold ==
    /\ pc = "fold"
    /\ LET folded == FoldTransactions(
                         [balance |-> balance, dailyIncome |-> dailyIncome,
                          dailyExpenses |-> dailyExpenses],
                         txns, 1, StartUTC, EndUTC)
       IN /\ balance' = folded.balance
          /\ dailyIncome' = folded.dailyIncome
          /\ dailyExpenses' = folded.dailyExpenses
    /\ pc' = "walk"
    /\ UNCHANGED <<startDate, endDate, startingBalance, txns, ledger>>
    /\ UNCHANGED <<occVars, callerVars, storeVars, saveVars>>
    /\ UNCHANGED <<clientVars, serverVars, sqlVars>>

\* while (current <= endUTC) {...}; return ledger
Walk ==
    /\ pc = "walk"
    /\ ledger' = WalkDays(StartUTC, EndUTC, balance, dailyIncome, dailyExpenses, << >>)
    /\ pc' = "done"
    /\ UNCHANGED <<startDate, endDate, startingBalance, txns,
                   balance, dailyIncome, dailyExpenses>>
    /\ UNCHANGED <<occVars, callerVars, storeVars, saveVars>>
    /\ UNCHANGED <<clientVars, serverVars, sqlVars>>

Next == Fold \/ Walk

Spec == Init /\ [][Next]_vars

----------------------------------------------------------------------------
(* computeLedger called again by regenerateLedger on the same account and  *)
(* the same range                                                          *)

MaxRepeats == 2

\* slip: the expense map outlives the call
CallAgainStale ==
    /\ pc = "done"
    /\ calls < MaxRepeats
    /\ calls' = calls + 1
    /\ firstLedger' = IF calls = 0 THEN ledger ELSE firstLedger
    /\ balance' = startingBalance
    /\ dailyIncome' = << >>
    /\ ledger' = << >>
    /\ pc' = "fold"
    /\ UNCHANGED <<startDate, endDate, startingBalance, txns, dailyExpenses>>
    /\ UNCHANGED <<occVars, storeVars, saveVars>>
    /\ UNCHANGED <<clientVars, serverVars, sqlVars>>

\* const ledger = computeLedger(start, end, account.startingBalance || 0,
\* account.transactions): the caller keeps the result it had, and the new
\* call starts with locals of its own (ledger = [], two new Maps, balance =
\* startingBalance).
CallAgain ==
    /\ pc = "done"
    /\ calls < MaxRepeats
    /\ calls' = calls + 1
    /\ firstLedger' = IF calls = 0 THEN ledger ELSE firstLedger
    /\ balance' = startingBalance
    /\ dailyIncome' = << >> /\ dailyExpenses' = << >>
    /\ ledger' = << >>
    /\ pc' = "fold"
    /\ UNCHANGED <<startDate, endDate, startingBalance, txns>>
    /\ UNCHANGED <<occVars, storeVars, saveVars>>
    /\ UNCHANGED <<clientVars, serverVars, sqlVars>>

RepeatNext == Fold \/ Walk \/ CallAgain

SpecRepeat == Init /\ [][RepeatNext]_vars

----------------------------------------------------------------------------
(* The stores of the three programs: the browser client (state.accounts    *)
(* and localStorage), the JSON-file server (state.accounts and the data    *)
(* file) and the SQLite server (the accounts and transactions tables).     *)
(* One account, its starting balance and its transactions; a run is one    *)
(* program.  On the servers a request runs to its response before the next *)
(* one, and the write of the data file succeeds.                           *)

MaxStored == 2

\* parseFloat of a field that holds no number
NaN == 999999999

\* what parseFloat makes of the amount and balance fields, in mills
ParsedNumbers == {0, 12340, 1005, 4, -2500, -15, NaN}

NameInputs == {<< >>, RentName}
DateInputs == {Missing, <<2024, 1, 1>>}

NewAccount == [startingBalance |-> 0, transactions |-> << >>]

StoreInit ==
    /\ variant \in {"client", "json", "sqlite"}
    /\ account = NewAccount
    /\ persisted = NewAccount
    /\ occTxn = Salary(Missing, "single") /\ occRangeEnd = 0
    /\ occCurrent = Null /\ occurrences = << >> /\ occPc = "idle"
    /\ startDate = 0 /\ endDate = 0 /\ startingBalance = 0 /\ txns = << >>
    /\ balance = 0 /\ dailyIncome = << >> /\ dailyExpenses = << >>
    /\ ledger = << >> /\ pc = "idle"
    /\ CallerIdle /\ SaveIdle
    /\ ClientIdle /\ ServerIdle /\ SqlIdle

\* the submit handler of the transaction form, persistState included
ClientSubmitTransaction ==
    /\ variant = "client"
    /\ \E name \in NameInputs, amount \in ParsedNumbers, start \in DateInputs :
          IF name = << >> \/ amount = NaN \/ start = Missing
          THEN UNCHANGED <<account, persisted>>
          ELSE /\ Len(account.transactions) < MaxStored
               /\ account' = [account EXCEPT !.transactions =
                                  Append(@, Txn("expense", name, amount, start, "monthly"))]
               /\ persisted' = account'
    /\ UNCHANGED variant
    /\ UNCHANGED <<occVars, ledgerVars, callerVars, saveVars>>
    /\ UNCHANGED <<clientVars, serverVars, sqlVars>>

\* the click handler of the save button of the starting balance
ClientSaveStartingBalance ==
    /\ variant = "client"
    /\ \E value \in ParsedNumbers :
          IF value = NaN
          THEN UNCHANGED <<account, persisted>>
          ELSE /\ account' = [account EXCEPT !.startingBalance = RoundCents(value)]
               /\ persisted' = account'
    /\ UNCHANGED variant
    /\ UNCHANGED <<occVars, ledgerVars, callerVars, saveVars>>
    /\ UNCHANGED <<clientVars, serverVars, sqlVars>>

\* the map over the transactions read from storage
RoundAmounts(list) ==
    [i \in 1 .. Len(list) |-> [list[i] EXCEPT !.amount = RoundCents(@)]]

\* page load: restoreState reads localStorage, then setCurrentAccount
\* writes the state back
ClientLoad ==
    /\ variant = "client"
    /\ account' = [startingBalance |-> RoundCents(persisted.startingBalance),
                   transactions |-> RoundAmounts(persisted.transactions)]
    /\ persisted' = account'
    /\ UNCHANGED variant
    /\ UNCHANGED <<occVars, ledgerVars, callerVars, saveVars>>
    /\ UNCHANGED <<clientVars, serverVars, sqlVars>>

\* JSON-file server, POST /api/accounts/:id/transactions
JsonPostTransaction ==
    /\ variant = "json"
    /\ \E name \in NameInputs, amount \in ParsedNumbers, start \in DateInputs :
          IF name = << >> \/ amount = NaN \/ start = Missing
          THEN UNCHANGED <<account, persisted>>
          ELSE /\ Len(account.transactions) < MaxStored
               /\ account' = [account EXCEPT !.transactions =
                                  Append(@, Txn("expense", name, RoundCents(amount),
                                                start, "monthly"))]
               /\ persisted' = account'
    /\ UNCHANGED variant
    /\ UNCHANGED <<occVars, ledgerVars, callerVars, saveVars>>
    /\ UNCHANGED <<clientVars, serverVars, sqlVars>>

\* JSON-file server, PUT /api/accounts/:id with a startingBalance
JsonPutAccount ==
    /\ variant = "json"
    /\ \E value \in ParsedNumbers :
          IF value = NaN
          THEN UNCHANGED <<account, persisted>>
          ELSE /\ account' = [account EXCEPT !.startingBalance = RoundCents(value)]
               /\ persisted' = account'
    /\ UNCHANGED variant
    /\ UNCHANGED <<occVars, ledgerVars, callerVars, saveVars>>
    /\ UNCHANGED <<clientVars, serverVars, sqlVars>>

\* SQLite server, POST /api/accounts/:id/transactions: the INSERT binds
\* parsedAmount
SqlitePostTransaction ==
    /\ variant = "sqlite"
    /\ \E name \in NameInputs, amount \in ParsedNumbers, start \in DateInputs :
          IF name = << >> \/ amount = NaN \/ start = Missing
          THEN UNCHANGED persisted
          ELSE /\ Len(persisted.transactions) < MaxStored
               /\ persisted' = [persisted EXCEPT !.transactions =
                                    Append(@, Txn("expense", name, amount, start, "monthly"))]
    /\ UNCHANGED <<variant, account>>
    /\ UNCHANGED <<occVars, ledgerVars, callerVars, saveVars>>
    /\ UNCHANGED <<clientVars, serverVars, sqlVars>>

\* SQLite server, PUT /api/accounts/:id with a startingBalance: the UPDATE
\* binds value
SqlitePutAccount ==
    /\ variant = "sqlite"
    /\ \E value \in ParsedNumbers :
          IF value = NaN
          THEN UNCHANGED persisted
          ELSE persisted' = [persisted EXCEPT !.startingBalance = value]
    /\ UNCHANGED <<variant, account>>
    /\ UNCHANGED <<occVars, ledgerVars, callerVars, saveVars>>
    /\ UNCHANGED <<clientVars, serverVars, sqlVars>>

StoreNext ==
    \/ ClientSubmitTransaction \/ ClientSaveStartingBalance \/ ClientLoad
    \/ JsonPostTransaction \/ JsonPutAccount
    \/ SqlitePostTransaction \/ SqlitePutAccount

SpecStore == StoreInit /\ [][StoreNext]_vars

----------------------------------------------------------------------------
(* The write queue of the JSON-file server: saveState chains every write   *)
(* of the data file on the promise isSaving.  saves[i] is the promise the  *)
(* i-th call of saveState assigned to isSaving; the promise isSaving held  *)
(* before the first call is Promise.resolve().  Requests are handled       *)
(* concurrently: a handler is suspended at its await while the event loop  *)
(* runs other handlers and promise callbacks.  Every request calls         *)
(* saveState once, so there are at most MaxRequests promises.              *)

MaxRequests == 3

Requests == 1 .. MaxRequests

\* state.accounts is an array; an assignment beyond its end leaves holes,
\* which read as undefined
Hole ==
    [id |-> Null, name |-> Null, startingBalance |-> Null,
     position |-> Null, transactions |-> << >>]

IsHole(acct) == acct.id = Null

\* JSON.stringify(state, null, 2): the fields of every account in the order
\* of the array; a hole is written as null
Serialize(list) ==
    [k \in DOMAIN list |->
        IF IsHole(list[k])
        THEN << >>
        ELSE <<list[k].id, list[k].name, list[k].startingBalance,
               list[k].position, list[k].transactions>>]

\* isSaving = isSaving.then(() => persistState()) in the handler of request
\* r.  afterFailure notes whether a write had been rejected before the
\* call.
Enqueue(queue, r) ==
    Append(queue,
           [caller |-> r, status |-> "pending", payload |-> Missing,
            afterFailure |->
                \E i \in DOMAIN queue : queue[i].status = "rejected"])

SaveInit ==
    /\ saves = << >>
    /\ writeLog = << >>
    /\ reqPc = [r \in Requests |-> "received"]
    /\ occTxn = Salary(Missing, "single") /\ occRangeEnd = 0
    /\ occCurrent = Null /\ occurrences = << >> /\ occPc = "idle"
    /\ startDate = 0 /\ endDate = 0 /\ startingBalance = 0 /\ txns = << >>
    /\ balance = 0 /\ dailyIncome = << >> /\ dailyExpenses = << >>
    /\ ledger = << >> /\ pc = "idle"
    /\ CallerIdle /\ StoreIdle
    /\ ClientIdle /\ ServerIdle /\ SqlIdle

\* slip: persistState is called at once, not chained on isSaving
PreviousSaveIgnored(queue, i) == TRUE

\* isSaving.then(callback): the callback runs once the promise before it
\* in the chain is fulfilled
PreviousSaveFulfilled(queue, i) ==
    IF i = 1 THEN TRUE ELSE queue[i - 1].status = "fulfilled"

\* isSaving.then(callback) without a rejection handler: a rejected promise
\* rejects the next one, and the callback is not called
PreviousSaveRejected(queue, i) ==
    IF i = 1 THEN FALSE ELSE queue[i - 1].status = "rejected"

\* a mutating handler reaches `await saveState()`:
\* isSaving = isSaving.then(() => persistState()); await isSaving
SaveState(r) ==
    /\ reqPc[r] = "received"
    /\ saves' = Enqueue(saves, r)
    /\ reqPc' = [reqPc EXCEPT ![r] = "saving"]
    /\ UNCHANGED writeLog
    /\ UNCHANGED <<occVars, ledgerVars, callerVars, storeVars>>
    /\ UNCHANGED <<clientVars, serverVars, sqlVars>>

\* the callback of the i-th promise runs: persistState() serializes the
\* state as it is now and starts writeFile
PersistState(i) ==
    /\ i \in DOMAIN saves
    /\ saves[i].status = "pending"
    /\ PreviousSaveFulfilled(saves, i)
    /\ saves' = [saves EXCEPT ![i].status = "writing",
                              ![i].payload = Serialize(accounts)]
    /\ writeLog' = Append(writeLog, i)
    /\ UNCHANGED reqPc
    /\ UNCHANGED <<occVars, ledgerVars, callerVars, storeVars>>
    /\ UNCHANGED <<clientVars, serverVars, sqlVars>>

\* the rejection of the promise before it is passed on to the i-th promise
RejectionPassedOn(i) ==
    /\ i \in DOMAIN saves
    /\ saves[i].status = "pending"
    /\ PreviousSaveRejected(saves, i)
    /\ saves' = [saves EXCEPT ![i].status = "rejected"]
    /\ UNCHANGED <<writeLog, reqPc>>
    /\ UNCHANGED <<occVars, ledgerVars, callerVars, storeVars>>
    /\ UNCHANGED <<clientVars, serverVars, sqlVars>>

\* writeFile resolves: the file holds the payload
WriteSucceeds(i) ==
    /\ i \in DOMAIN saves
    /\ saves[i].status = "writing"
    /\ saves' = [saves EXCEPT ![i].status = "fulfilled"]
    /\ dataFile' = saves[i].payload
    /\ UNCHANGED <<writeLog, reqPc, accounts, reqInfo>>
    /\ UNCHANGED <<occVars, ledgerVars, callerVars, storeVars>>
    /\ UNCHANGED <<clientVars, sqlVars>>

\* writeFile rejects
WriteFails(i) ==
    /\ i \in DOMAIN saves
    /\ saves[i].status = "writing"
    /\ saves' = [saves EXCEPT ![i].status = "rejected"]
    /\ UNCHANGED <<writeLog, reqPc>>
    /\ UNCHANGED <<occVars, ledgerVars, callerVars, storeVars>>
    /\ UNCHANGED <<clientVars, serverVars, sqlVars>>

\* state.accounts[index]: undefined for a hole and beyond the end
At(list, index) ==
    IF index \in DOMAIN list THEN list[index] ELSE Hole

\* the answer of PUT is built from state.accounts[index] after the await:
\* sanitizeAccountResponse(undefined) throws a TypeError
ResponseThrows(r) ==
    /\ r \in DOMAIN reqInfo
    /\ reqInfo[r].kind = "putAccount"
    /\ IsHole(At(accounts, reqInfo[r].index))

\* `await isSaving` returns or throws in the handler of request r: the
\* response is sent, or saveState rethrows and requestHandler answers 500
AwaitSettles(r) ==
    /\ reqPc[r] = "saving"
    /\ \E i \in 1 .. Len(saves) :
          /\ saves[i].caller = r
          /\ saves[i].status \in {"fulfilled", "rejected"}
          /\ reqPc' = [reqPc EXCEPT ![r] =
                           IF saves[i].status = "rejected" THEN "failed"
                           ELSE IF ResponseThrows(r) THEN "threw"
                           ELSE "responded"]
    /\ UNCHANGED <<saves, writeLog>>
    /\ UNCHANGED <<occVars, ledgerVars, callerVars, storeVars>>
    /\ UNCHANGED <<clientVars, serverVars, sqlVars>>

SaveNext ==
    \/ \E r \in Requests : SaveState(r) \/ AwaitSettles(r)
    \/ \E i \in Requests :
          PersistState(i) \/ RejectionPassedOn(i) \/ WriteSucceeds(i) \/ WriteFails(i)

SpecSave == SaveInit /\ [][SaveNext]_vars

----------------------------------------------------------------------------
(* The account controls of the multi-account client.  clientState is the   *)
(* object `state` (the keys of state.accounts, accountOrder and            *)
(* currentAccountId), the number of ids createId has handed out, and       *)
(* whether initAccountControls has run; storage is the item of             *)
(* localStorage under STORAGE_KEY.  Account ids are strings, written here  *)
(* as numbers: 1, 2, ... for the ids createId returns, StoredIds for the   *)
(* ids of a payload found at the first page load.                          *)

MaxCreated == 2
MaxStoredOrder == 2

StoredIds == {101, 102}
\* an entry of a stored accountOrder that is not a string
NotAString == 0

\* getItem returns null, or restoreState returns null
NoPayload ==
    [present |-> FALSE, accounts |-> {}, accountOrder |-> << >>,
     currentAccountId |-> Null]

\* what JSON.parse may return for the item found at the first page load
StoredPayloads ==
    {NoPayload} \cup
    {[present |-> TRUE, accounts |-> a, accountOrder |-> o,
      currentAccountId |-> c] :
        a \in SUBSET StoredIds,
        o \in SeqsUpTo(StoredIds \cup {NotAString}, MaxStoredOrder),
        c \in StoredIds \cup {Null}}

Includes(list, id) == \E k \in DOMAIN list : list[k] = id

\* the payload is built from accountOrder, skipping the ids without an
\* account; setItem may throw (quota), which leaves the item as it was
persistState(st, stored, written) ==
    IF written
    THEN [present |-> TRUE,
          accounts |-> {id \in st.accounts : Includes(st.accountOrder, id)},
          accountOrder |-> st.accountOrder,
          currentAccountId |-> st.currentAccountId]
    ELSE stored

restoreState(raw) ==
    IF ~raw.present
    THEN NoPayload
    ELSE LET accountOrder ==
                 SelectSeq(raw.accountOrder, LAMBDA id : id # NotAString)
             restoredAccounts ==
                 {id \in raw.accounts : Includes(accountOrder, id)}
             currentAccountId ==
                 IF Includes(accountOrder, raw.currentAccountId)
                 THEN raw.currentAccountId
                 ELSE IF accountOrder # << >> THEN accountOrder[1] ELSE Null
         IN IF accountOrder = << >>
            THEN NoPayload
            ELSE [present |-> TRUE, accounts |-> restoredAccounts,
                  accountOrder |-> accountOrder,
                  currentAccountId |-> currentAccountId]

\* renderAccountOptions reads state.accounts[id].name for every id of
\* accountOrder: a TypeError when an id has no account
renderAccountOptionsThrows(st) ==
    \E k \in DOMAIN st.accountOrder : st.accountOrder[k] \notin st.accounts

\* currentAccountId is assigned first; persistState is the last statement
\* and is not reached when renderAccountOptions throws
setCurrentAccount(st, stored, id, written) ==
    LET found == id # Null /\ id \in st.accounts
        next == [st EXCEPT !.currentAccountId = IF found THEN id ELSE Null]
        threw == renderAccountOptionsThrows(next)
    IN [state |-> next,
        storage |-> IF threw THEN stored
                    ELSE persistState(next, stored, written),
        threw |-> threw]

createAccount(st, stored, written) ==
    LET id == st.created + 1
        next == [st EXCEPT !.accounts = @ \cup {id},
                           !.accountOrder = Append(@, id),
                           !.created = id]
    IN [state |-> next, storage |-> persistState(next, stored, written),
        id |-> id]

ClientInit ==
    /\ clientState = [accounts |-> {}, accountOrder |-> << >>,
                      currentAccountId |-> Null, created |-> 0,
                      pc |-> "start"]
    /\ storage \in StoredPayloads
    /\ occTxn = Salary(Missing, "single") /\ occRangeEnd = 0
    /\ occCurrent = Null /\ occurrences = << >> /\ occPc = "idle"
    /\ startDate = 0 /\ endDate = 0 /\ startingBalance = 0 /\ txns = << >>
    /\ balance = 0 /\ dailyIncome = << >> /\ dailyExpenses = << >>
    /\ ledger = << >> /\ pc = "idle"
    /\ CallerIdle /\ StoreIdle /\ SaveIdle
    /\ ServerIdle /\ SqlIdle

\* DOMContentLoaded: init() calls initAccountControls, which registers the
\* three handlers, restores the stored state, creates 'Account 1' when
\* there is no account, and selects the current account
InitAccountControls ==
    /\ clientState.pc = "start"
    /\ \E written1 \in BOOLEAN, written2 \in BOOLEAN :
          LET restored == restoreState(storage)
              s1 == IF restored.present
                    THEN [clientState EXCEPT
                              !.accounts = restored.accounts,
                              !.accountOrder = restored.accountOrder,
                              !.currentAccountId = restored.currentAccountId]
                    ELSE clientState
              created == createAccount(s1, storage, written1)
              s2 == IF s1.accountOrder = << >>
                    THEN [created.state EXCEPT
                              !.currentAccountId = created.id]
                    ELSE s1
              stored2 == IF s1.accountOrder = << >>
                         THEN created.storage ELSE storage
              s3 == IF s2.currentAccountId = Null /\ s2.accountOrder # << >>
                    THEN [s2 EXCEPT !.currentAccountId = s2.accountOrder[1]]
                    ELSE s2
              result == setCurrentAccount(s3, stored2, s3.currentAccountId,
                                          written2)
          IN /\ s1.accountOrder = << >> => clientState.created < MaxCreated
             /\ clientState' = [result.state EXCEPT
                                   !.pc = IF result.threw
                                          THEN "thrown" ELSE "ready"]
             /\ storage' = result.storage
    /\ UNCHANGED <<occVars, ledgerVars, callerVars, storeVars, saveVars>>
    /\ UNCHANGED <<serverVars, sqlVars>>

\* click on "create account"
CreateAccountClick ==
    /\ clientState.pc # "start"
    /\ clientState.created < MaxCreated
    /\ \E written1 \in BOOLEAN, written2 \in BOOLEAN :
          LET created == createAccount(clientState, storage, written1)
              result == setCurrentAccount(created.state, created.storage,
                                          created.id, written2)
          IN /\ clientState' = result.state
             /\ storage' = result.storage
    /\ UNCHANGED <<occVars, ledgerVars, callerVars, storeVars, saveVars>>
    /\ UNCHANGED <<serverVars, sqlVars>>

\* change of the account select: its options are the ids of accountOrder
AccountSelectChange ==
    /\ clientState.pc # "start"
    /\ \E k \in DOMAIN clientState.accountOrder, written \in BOOLEAN :
          LET result == setCurrentAccount(clientState, storage,
                                          clientState.accountOrder[k],
                                          written)
          IN /\ clientState' = result.state
             /\ storage' = result.storage
    /\ UNCHANGED <<occVars, ledgerVars, callerVars, storeVars, saveVars>>
    /\ UNCHANGED <<serverVars, sqlVars>>

\* click on "delete account": the handler returns at once when one account
\* is left or none is current
DeleteAccountClick ==
    /\ clientState.pc # "start"
    /\ Len(clientState.accountOrder) > 1
    /\ clientState.currentAccountId # Null
    /\ \E written \in BOOLEAN :
          LET idToRemove == clientState.currentAccountId
              order == SelectSeq(clientState.accountOrder,
                                 LAMBDA id : id # idToRemove)
              s1 == [clientState EXCEPT !.accounts = @ \ {idToRemove},
                                        !.accountOrder = order]
              nextId == IF order # << >> THEN order[1] ELSE Null
              result == setCurrentAccount(s1, storage, nextId, written)
          IN /\ clientState' = result.state
             /\ storage' = result.storage
    /\ UNCHANGED <<occVars, ledgerVars, callerVars, storeVars, saveVars>>
    /\ UNCHANGED <<serverVars, sqlVars>>

\* the page is loaded again: `state` starts empty, the stored item stays,
\* and createId does not hand out an id a second time
Reload ==
    /\ clientState.pc # "start"
    /\ clientState' = [accounts |-> {}, accountOrder |-> << >>,
                       currentAccountId |-> Null,
                       created |-> clientState.created, pc |-> "start"]
    /\ UNCHANGED storage
    /\ UNCHANGED <<occVars, ledgerVars, callerVars, storeVars, saveVars>>
    /\ UNCHANGED <<serverVars, sqlVars>>

ClientNext ==
    \/ InitAccountControls
    \/ CreateAccountClick
    \/ AccountSelectChange
    \/ DeleteAccountClick
    \/ Reload

SpecClient == ClientInit /\ [][ClientNext]_vars

----------------------------------------------------------------------------
(* The request handlers of the JSON-file server.  Every request runs its   *)
(* handler up to the next await in one step; between the steps of one      *)
(* handler the event loop runs the steps of the others.  accounts is       *)
(* state.accounts; an index k of the array is written k + 1 here, and the  *)
(* result -1 of findIndex is written 0.  Names are strings, written as     *)
(* numbers.                                                                *)

MaxServerRequests == 2

ServerRequests == 1 .. MaxServerRequests

\* the accounts loaded from the data file at startup
InitialAccounts ==
    << [id |-> 1, name |-> 1, startingBalance |-> 0, position |-> 0,
        transactions |-> <<1>>],
       [id |-> 2, name |-> 2, startingBalance |-> 0, position |-> 1,
        transactions |-> << >>] >>

\* an id in a request path that no account and no transaction has
UnknownId == 99

TargetIds == {1, 2, UnknownId}
TransactionIds == {1, UnknownId}

\* randomUUID() in the handler of request r
NewId(r) == 10 + r
\* body.name and body.startingBalance (in mills) of request r
NewName(r) == 20 + r
NewBalance(r) == 12340

NotFound == 0
TypeError == -1

NoRequest ==
    [kind |-> "none", target |-> Null, index |-> NotFound, account |-> Hole]

\* state.accounts[index] = acct: beyond the end the array grows and the
\* entries in between are holes
SetAt(list, index, acct) ==
    [k \in 1 .. (IF index > Len(list) THEN index ELSE Len(list)) |->
        IF k = index THEN acct
        ELSE IF k <= Len(list) THEN list[k] ELSE Hole]

\* state.accounts.splice(index, 1)
Splice(list, index) ==
    [k \in 1 .. Len(list) - 1 |-> IF k < index THEN list[k] ELSE list[k + 1]]

\* state.accounts.map((acct, idx) => ({ ...acct, position: idx })): map
\* skips the holes and keeps them
Renumber(list) ==
    [k \in DOMAIN list |->
        IF IsHole(list[k]) THEN Hole
        ELSE [list[k] EXCEPT !.position = k - 1]]

\* the map of handleTransactions: every account without the transaction
RemoveTransaction(list, txnId) ==
    [k \in DOMAIN list |->
        IF IsHole(list[k]) THEN Hole
        ELSE [list[k] EXCEPT
                 !.transactions = SelectSeq(@, LAMBDA t : t # txnId)]]

\* findIndex calls account => account.id === id on every index in order,
\* holes included: reading .id of undefined throws a TypeError
findAccountIndex(list, id) ==
    LET stops == {k \in DOMAIN list : IsHole(list[k]) \/ list[k].id = id}
    IN IF stops = {}
       THEN NotFound
       ELSE LET first == CHOOSE k \in stops : \A j \in stops : k <= j
            IN IF IsHole(list[first]) THEN TypeError ELSE first

ServerInit ==
    /\ accounts = InitialAccounts
    /\ dataFile = Serialize(InitialAccounts)
    /\ reqInfo = [r \in ServerRequests |-> NoRequest]
    /\ reqPc = [r \in ServerRequests |-> "received"]
    /\ saves = << >>
    /\ writeLog = << >>
    /\ occTxn = Salary(Missing, "single") /\ occRangeEnd = 0
    /\ occCurrent = Null /\ occurrences = << >> /\ occPc = "idle"
    /\ startDate = 0 /\ endDate = 0 /\ startingBalance = 0 /\ txns = << >>
    /\ balance = 0 /\ dailyIncome = << >> /\ dailyExpenses = << >>
    /\ ledger = << >> /\ pc = "idle"
    /\ CallerIdle /\ StoreIdle
    /\ ClientIdle /\ SqlIdle

\* POST /api/accounts up to `await readRequestBody(req)`
PostAccountReceived(r) ==
    /\ reqPc[r] = "received"
    /\ reqPc' = [reqPc EXCEPT ![r] = "reading"]
    /\ reqInfo' = [reqInfo EXCEPT ![r] =
                      [NoRequest EXCEPT !.kind = "createAccount"]]
    /\ UNCHANGED <<accounts, dataFile, saves, writeLog>>
    /\ UNCHANGED <<occVars, ledgerVars, callerVars, storeVars>>
    /\ UNCHANGED <<clientVars, sqlVars>>

\* POST /api/accounts from the body to `await saveState()`
PostAccountBody(r) ==
    /\ reqPc[r] = "reading"
    /\ reqInfo[r].kind = "createAccount"
    /\ LET position == Len(accounts)
           created == [id |-> NewId(r), name |-> NewName(r),
                       startingBalance |-> 0, position |-> position,
                       transactions |-> << >>]
       IN accounts' = Append(accounts, created)
    /\ saves' = Enqueue(saves, r)
    /\ reqPc' = [reqPc EXCEPT ![r] = "saving"]
    /\ UNCHANGED <<dataFile, reqInfo, writeLog>>
    /\ UNCHANGED <<occVars, ledgerVars, callerVars, storeVars>>
    /\ UNCHANGED <<clientVars, sqlVars>>

\* PUT /api/accounts/:id up to `await readRequestBody(req)`: index and
\* account are read before the await
PutAccountReceived(r) ==
    /\ reqPc[r] = "received"
    /\ \E accountId \in TargetIds :
          LET index == findAccountIndex(accounts, accountId)
          IN IF index = TypeError
             THEN /\ reqPc' = [reqPc EXCEPT ![r] = "threw"]
                  /\ UNCHANGED reqInfo
             ELSE IF index = NotFound
             THEN /\ reqPc' = [reqPc EXCEPT ![r] = "notFound"]
                  /\ UNCHANGED reqInfo
             ELSE /\ reqPc' = [reqPc EXCEPT ![r] = "reading"]
                  /\ reqInfo' = [reqInfo EXCEPT ![r] =
                                    [kind |-> "putAccount",
                                     target |-> accountId,
                                     index |-> index,
                                     account |-> accounts[index]]]
    /\ UNCHANGED <<accounts, dataFile, saves, writeLog>>
    /\ UNCHANGED <<occVars, ledgerVars, callerVars, storeVars>>
    /\ UNCHANGED <<clientVars, sqlVars>>

\* PUT /api/accounts/:id from the body to `await saveState()`, or to the
\* answer 400 when the body has no valid field
PutAccountBody(r) ==
    /\ reqPc[r] = "reading"
    /\ reqInfo[r].kind = "putAccount"
    /\ \E updates \in {"name", "startingBalance", "none"} :
          IF updates = "none"
          THEN /\ reqPc' = [reqPc EXCEPT ![r] = "badRequest"]
               /\ UNCHANGED <<accounts, saves>>
          ELSE /\ accounts' =
                      SetAt(accounts, reqInfo[r].index,
                            IF updates = "name"
                            THEN [reqInfo[r].account EXCEPT
                                     !.name = NewName(r)]
                            ELSE [reqInfo[r].account EXCEPT
                                     !.startingBalance =
                                         RoundCents(NewBalance(r))])
               /\ saves' = Enqueue(saves, r)
               /\ reqPc' = [reqPc EXCEPT ![r] = "saving"]
    /\ UNCHANGED <<dataFile, reqInfo, writeLog>>
    /\ UNCHANGED <<occVars, ledgerVars, callerVars, storeVars>>
    /\ UNCHANGED <<clientVars, sqlVars>>

\* DELETE /api/accounts/:id up to `await saveState()`
DeleteAccount(r) ==
    /\ reqPc[r] = "received"
    /\ \E accountId \in TargetIds :
          LET index == findAccountIndex(accounts, accountId)
          IN IF index = TypeError
             THEN /\ reqPc' = [reqPc EXCEPT ![r] = "threw"]
                  /\ UNCHANGED <<accounts, saves, reqInfo>>
             ELSE IF index = NotFound
             THEN /\ reqPc' = [reqPc EXCEPT ![r] = "notFound"]
                  /\ UNCHANGED <<accounts, saves, reqInfo>>
             ELSE /\ accounts' = Renumber(Splice(accounts, index))
                  /\ saves' = Enqueue(saves, r)
                  /\ reqPc' = [reqPc EXCEPT ![r] = "saving"]
                  /\ reqInfo' = [reqInfo EXCEPT ![r] =
                                    [NoRequest EXCEPT
                                        !.kind = "deleteAccount",
                                        !.target = accountId]]
    /\ UNCHANGED <<dataFile, writeLog>>
    /\ UNCHANGED <<occVars, ledgerVars, callerVars, storeVars>>
    /\ UNCHANGED <<clientVars, sqlVars>>

\* POST /api/accounts/:id/transactions up to `await readRequestBody(req)`:
\* index is read before the await
PostTransactionReceived(r) ==
    /\ reqPc[r] = "received"
    /\ \E accountId \in TargetIds :
          LET index == findAccountIndex(accounts, accountId)
          IN IF index = TypeError
             THEN /\ reqPc' = [reqPc EXCEPT ![r] = "threw"]
                  /\ UNCHANGED reqInfo
             ELSE IF index = NotFound
             THEN /\ reqPc' = [reqPc EXCEPT ![r] = "notFound"]
                  /\ UNCHANGED reqInfo
             ELSE /\ reqPc' = [reqPc EXCEPT ![r] = "reading"]
                  /\ reqInfo' = [reqInfo EXCEPT ![r] =
                                    [NoRequest EXCEPT
                                        !.kind = "postTransaction",
                                        !.target = accountId,
                                        !.index = index]]
    /\ UNCHANGED <<accounts, dataFile, saves, writeLog>>
    /\ UNCHANGED <<occVars, ledgerVars, callerVars, storeVars>>
    /\ UNCHANGED <<clientVars, sqlVars>>

\* POST /api/accounts/:id/transactions from the body to
\* `await saveState()`, to the answer 400, or to the TypeError of
\* state.accounts[index].transactions when the entry is undefined
PostTransactionBody(r) ==
    /\ reqPc[r] = "reading"
    /\ reqInfo[r].kind = "postTransaction"
    /\ \E valid \in BOOLEAN :
          LET index == reqInfo[r].index
              entry == At(accounts, index)
          IN IF ~valid
             THEN /\ reqPc' = [reqPc EXCEPT ![r] = "badRequest"]
                  /\ UNCHANGED <<accounts, saves>>
             ELSE IF IsHole(entry)
             THEN /\ reqPc' = [reqPc EXCEPT ![r] = "threw"]
                  /\ UNCHANGED <<accounts, saves>>
             ELSE /\ accounts' =
                         SetAt(accounts, index,
                               [entry EXCEPT
                                   !.transactions = Append(@, NewId(r))])
                  /\ saves' = Enqueue(saves, r)
                  /\ reqPc' = [reqPc EXCEPT ![r] = "saving"]
    /\ UNCHANGED <<dataFile, reqInfo, writeLog>>
    /\ UNCHANGED <<occVars, ledgerVars, callerVars, storeVars>>
    /\ UNCHANGED <<clientVars, sqlVars>>

\* DELETE /api/transactions/:id up to `await saveState()`: state.accounts
\* is replaced by the mapped array even when nothing was removed
DeleteTransaction(r) ==
    /\ reqPc[r] = "received"
    /\ \E txnId \in TransactionIds :
          LET mapped == RemoveTransaction(accounts, txnId)
              removed == \E k \in DOMAIN accounts :
                            Len(mapped[k].transactions)
                                # Len(accounts[k].transactions)
          IN /\ accounts' = mapped
             /\ IF removed
                THEN /\ saves' = Enqueue(saves, r)
                     /\ reqPc' = [reqPc EXCEPT ![r] = "saving"]
                     /\ reqInfo' = [reqInfo EXCEPT ![r] =
                                       [NoRequest EXCEPT
                                           !.kind = "deleteTransaction",
                                           !.target = txnId]]
                ELSE /\ reqPc' = [reqPc EXCEPT ![r] = "notFound"]
                     /\ UNCHANGED <<saves, reqInfo>>
    /\ UNCHANGED <<dataFile, writeLog>>
    /\ UNCHANGED <<occVars, ledgerVars, callerVars, storeVars>>
    /\ UNCHANGED <<clientVars, sqlVars>>

ServerNext ==
    \/ \E r \in ServerRequests :
          \/ PostAccountReceived(r)
          \/ PostAccountBody(r)
          \/ PutAccountReceived(r)
          \/ PutAccountBody(r)
          \/ DeleteAccount(r)
          \/ PostTransactionReceived(r)
          \/ PostTransactionBody(r)
          \/ DeleteTransaction(r)
          \/ AwaitSettles(r)
    \/ \E i \in ServerRequests :
          PersistState(i) \/ RejectionPassedOn(i) \/ WriteSucceeds(i) \/ WriteFails(i)

SpecServer == ServerInit /\ [][ServerNext]_vars

----------------------------------------------------------------------------
(* The account requests of the SQLite server.  rows is the table accounts  *)
(* (id and position of every row).  A handler runs one SQL statement per   *)
(* step: each `await` of get, run or all lets the statements of other      *)
(* requests run before the handler goes on.                                *)

MaxSqlRequests == 3

SqlRequests == 1 .. MaxSqlRequests

\* the rows of the table when the requests arrive
InitialRows == {[id |-> 1, position |-> 0], [id |-> 2, position |-> 1]}

\* req.params.id of a DELETE request
SqlTargetIds == {1, 2, UnknownId}

\* crypto.randomUUID() in the handler of request r
NewRowId(r) == 10 + r

NoStatement == [pc |-> "received", position |-> Null, pending |-> {}]

\* SELECT COALESCE(MAX(position), -1) AS maxPosition FROM accounts
MaxPosition(table) ==
    IF table = {}
    THEN -1
    ELSE CHOOSE p \in {row.position : row \in table} :
             \A row \in table : row.position <= p

\* SELECT id, position FROM accounts ORDER BY position ASC: the results the
\* query can give; rows of equal position come in either order
OrderedByPosition(table) ==
    {list \in [1 .. Cardinality(table) -> table] :
        /\ \A row \in table : \E k \in DOMAIN list : list[k] = row
        /\ \A k \in 1 .. Cardinality(table) - 1 :
              list[k].position <= list[k + 1].position}

SqlInit ==
    /\ rows = InitialRows
    /\ sqlReq = [r \in SqlRequests |-> NoStatement]
    /\ occTxn = Salary(Missing, "single") /\ occRangeEnd = 0
    /\ occCurrent = Null /\ occurrences = << >> /\ occPc = "idle"
    /\ startDate = 0 /\ endDate = 0 /\ startingBalance = 0 /\ txns = << >>
    /\ balance = 0 /\ dailyIncome = << >> /\ dailyExpenses = << >>
    /\ ledger = << >> /\ pc = "idle"
    /\ CallerIdle /\ StoreIdle /\ SaveIdle
    /\ ClientIdle /\ ServerIdle

\* POST /api/accounts: the SELECT of the largest position
SelectMaxPosition(r) ==
    /\ sqlReq[r].pc = "received"
    /\ sqlReq' = [sqlReq EXCEPT ![r].pc = "inserting",
                                ![r].position = MaxPosition(rows) + 1]
    /\ UNCHANGED rows
    /\ UNCHANGED <<occVars, ledgerVars, callerVars, storeVars, saveVars>>
    /\ UNCHANGED <<clientVars, serverVars>>

\* POST /api/accounts: the INSERT with the position computed before, and
\* the answer 201
InsertAccount(r) ==
    /\ sqlReq[r].pc = "inserting"
    /\ rows' = rows \cup {[id |-> NewRowId(r),
                           position |-> sqlReq[r].position]}
    /\ sqlReq' = [sqlReq EXCEPT ![r].pc = "responded"]
    /\ UNCHANGED <<occVars, ledgerVars, callerVars, storeVars, saveVars>>
    /\ UNCHANGED <<clientVars, serverVars>>

\* DELETE /api/accounts/:id: the DELETE, and the answer 404 when it
\* changed no row
DeleteRow(r) ==
    /\ sqlReq[r].pc = "received"
    /\ \E id \in SqlTargetIds :
          LET remaining == {row \in rows : row.id # id}
          IN /\ rows' = remaining
             /\ sqlReq' = [sqlReq EXCEPT ![r].pc =
                              IF remaining = rows
                              THEN "notFound" ELSE "selecting"]
    /\ UNCHANGED <<occVars, ledgerVars, callerVars, storeVars, saveVars>>
    /\ UNCHANGED <<clientVars, serverVars>>

\* DELETE /api/accounts/:id: the SELECT of the remaining rows; the UPDATE
\* statements of rows.map are all issued at once
SelectRows(r) ==
    /\ sqlReq[r].pc = "selecting"
    /\ \E list \in OrderedByPosition(rows) :
          LET updates == {[id |-> list[k].id, position |-> k - 1] :
                             k \in DOMAIN list}
          IN sqlReq' = [sqlReq EXCEPT
                           ![r].pending = updates,
                           ![r].pc = IF updates = {}
                                     THEN "responded" ELSE "updating"]
    /\ UNCHANGED rows
    /\ UNCHANGED <<occVars, ledgerVars, callerVars, storeVars, saveVars>>
    /\ UNCHANGED <<clientVars, serverVars>>

\* DELETE /api/accounts/:id: one of the UPDATE statements runs; after the
\* last one Promise.all resolves and the answer is 204
UpdatePosition(r) ==
    /\ sqlReq[r].pc = "updating"
    /\ \E update \in sqlReq[r].pending :
          /\ rows' = {IF row.id = update.id
                      THEN [row EXCEPT !.position = update.position]
                      ELSE row : row \in rows}
          /\ sqlReq' = [sqlReq EXCEPT
                           ![r].pending = @ \ {update},
                           ![r].pc = IF sqlReq[r].pending = {update}
                                     THEN "responded" ELSE "updating"]
    /\ UNCHANGED <<occVars, ledgerVars, callerVars, storeVars, saveVars>>
    /\ UNCHANGED <<clientVars, serverVars>>

SqlNext ==
    \E r \in SqlRequests :
        \/ SelectMaxPosition(r)
        \/ InsertAccount(r)
        \/ DeleteRow(r)
        \/ SelectRows(r)
        \/ UpdatePosition(r)

SpecSqlite == SqlInit /\ [][SqlNext]_vars

----------------------------------------------------------------------------
(* Properties of the occurrence generator (checked under SpecOcc)          *)

\* the string names a day that exists in the calendar
IsCalendarDate(v) ==
    /\ Len(v) = 3
    /\ NaNPart \notin {v[1], v[2], v[3]}
    /\ v[2] \in 1 .. 12
    /\ v[3] \in 1 .. MonthLength(v[1], v[2] - 1)

\* the day number of an existing calendar day
CivilDay(v) == DayFromYear(v[1]) + DaysBeforeMonth(v[1], v[2] - 1) + v[3] - 1

\* months since year 0 of the month a day lies in
MonthIndex(t) == 12 * getUTCFullYear(t) + getUTCMonth(t)

DayBased == {"weekly", "biweekly", "every14"}
MonthBased == {"monthly", "quarterly", "semiannual", "annual"}

ClaimedDays(f) == IF f = "weekly" THEN 7 ELSE 14
ClaimedMonths(f) ==
    IF f = "monthly" THEN 1 ELSE IF f = "quarterly" THEN 3
    ELSE IF f = "semiannual" THEN 6 ELSE 12

OccDone == occPc = "done"

C7_DayStep ==
    (OccDone /\ occTxn.frequency \in DayBased /\ IsCalendarDate(occTxn.startDate))
        => LET t0 == CivilDay(occTxn.startDate)
               k == ClaimedDays(occTxn.frequency)
           IN /\ Len(occurrences) =
                    (IF t0 <= occRangeEnd THEN ((occRangeEnd - t0) \div k) + 1 ELSE 0)
              /\ \A i \in 1 .. Len(occurrences) : occurrences[i] = t0 + (i - 1) * k
              /\ (/\ occTxn.frequency = "weekly"
                  /\ occTxn.startDate = <<2024, 1, 1>>
                  /\ toDateInputValue(occRangeEnd) = <<2024, 1, 22>>)
                 => [i \in 1 .. Len(occurrences) |-> toDateInputValue(occurrences[i])]
                        = << <<2024, 1, 1>>, <<2024, 1, 8>>, <<2024, 1, 15>>, <<2024, 1, 22>> >>

C7_Witness ==
    /\ OccDone /\ occTxn.frequency = "weekly"
    /\ occTxn.startDate = <<2024, 1, 1>>
    /\ toDateInputValue(occRangeEnd) = <<2024, 1, 22>>
    /\ Len(occurrences) = 4
    /\ occurrences[4] = occRangeEnd

\* C8: a month-based rule with step n puts every occurrence in the month
\* exactly n months after the month of the previous occurrence, on the
\* previous day-of-month clamped to the length of that month; no step
\* spills into the following month.
C8_MonthStep ==
    (OccDone /\ occTxn.frequency \in MonthBased)
        => \A i \in 1 .. Len(occurrences) - 1 :
              LET prev == occurrences[i]
                  next == occurrences[i + 1]
              IN /\ MonthIndex(next) = MonthIndex(prev) + ClaimedMonths(occTxn.frequency)
                 /\ getUTCDate(next) =
                       Min(getUTCDate(prev),
                           MonthLength(getUTCFullYear(next), getUTCMonth(next)))

C8_Witness ==
    /\ OccDone /\ occTxn.frequency = "monthly"
    /\ occTxn.startDate = <<2024, 1, 31>>
    /\ Len(occurrences) >= 2
    /\ toDateInputValue(occurrences[2]) = <<2024, 2, 29>>

\* the smallest of the start day and the lengths of the months of
\* occurrences 1 .. k
RECURSIVE CarriedDay(_, _, _)
CarriedDay(startDay, occs, k) ==
    IF k = 0 THEN startDay
    ELSE Min(CarriedDay(startDay, occs, k - 1),
             MonthLength(getUTCFullYear(occs[k]), getUTCMonth(occs[k])))

\* C9 as stated: every month step starts again from the original start
\* day-of-month, so the k-th occurrence falls on min(startDay, days in its
\* month).
C9_OriginalDayEachStep ==
    (OccDone /\ occTxn.frequency \in MonthBased /\ IsCalendarDate(occTxn.startDate))
        => \A k \in 1 .. Len(occurrences) :
              getUTCDate(occurrences[k]) =
                  Min(occTxn.startDate[3],
                      MonthLength(getUTCFullYear(occurrences[k]),
                                  getUTCMonth(occurrences[k])))

\* C9 amended: every month step starts from the day-of-month of the previous
\* occurrence, which may already be clamped, so the k-th occurrence falls on
\* the smallest of startDay and the lengths of the months of occurrences
\* 1 .. k (monthly from 2024-01-31: 02-29, then 03-29).
C9_ClampedDayCarried ==
    (OccDone /\ occTxn.frequency \in MonthBased /\ IsCalendarDate(occTxn.startDate))
        => \A k \in 1 .. Len(occurrences) :
              getUTCDate(occurrences[k]) =
                  CarriedDay(occTxn.startDate[3], occurrences, k)

C9_Witness ==
    /\ OccDone /\ occTxn.frequency = "monthly"
    /\ occTxn.startDate = <<2024, 1, 31>>
    /\ Len(occurrences) >= 3
    /\ toDateInputValue(occurrences[3]) = <<2024, 3, 29>>

\* C10: a start date that is not a valid calendar date (missing, not three
\* parts, a non-numeric part, or a month or day that does not exist) yields
\* no occurrence.
C10_InvalidStartYieldsNothing ==
    (OccDone /\ ~IsCalendarDate(occTxn.startDate)) => occurrences = << >>

\* C11: a frequency string that is not one of the eight known keys yields
\* exactly the occurrences the same transaction yields with frequency
\* 'single'.
C11_UnknownFrequencyIsSingle ==
    (OccDone /\ occTxn.frequency \notin Frequencies)
        => occurrences =
               generateOccurrences([occTxn EXCEPT !.frequency = "single"],
                                   occRangeEnd)

C11_Witness ==
    /\ OccDone /\ occTxn.frequency = "daily"
    /\ occTxn.startDate = <<2023, 1, 1>>
    /\ occRangeEnd = DateUTC(2024, 0, 22)
    /\ occurrences = <<CivilDay(<<2023, 1, 1>>)>>

StrictlyIncreasing(list) ==
    \A i \in 1 .. Len(list) - 1 : list[i] < list[i + 1]

\* C12: generateOccurrences terminates for every frequency and every finite
\* rangeEnd, and what it returns is strictly increasing, with every element
\* on or after the start date and on or before rangeEnd.
C12_TerminatesSortedBounded ==
    /\ <>OccDone
    /\ [](OccDone =>
            /\ StrictlyIncreasing(occurrences)
            /\ \A i \in 1 .. Len(occurrences) :
                   /\ occurrences[i] <= occRangeEnd
                   /\ IsCalendarDate(occTxn.startDate)
                        => occurrences[i] >= CivilDay(occTxn.startDate))

C12_Witness ==
    /\ OccDone /\ occTxn.frequency = "quarterly"
    /\ occTxn.startDate = <<2023, 11, 30>>
    /\ Len(occurrences) = 6
    /\ occurrences[6] < occRangeEnd

\* C19 as stated: a recurring transaction that starts on or before rangeEnd
\* has at most (rangeEnd - startDate) / step occurrences.
C19_CountAtMostQuotient ==
    (OccDone /\ IsCalendarDate(occTxn.startDate)
             /\ CivilDay(occTxn.startDate) <= occRangeEnd)
        => /\ occTxn.frequency \in DayBased
                => Len(occurrences) * ClaimedDays(occTxn.frequency)
                       <= occRangeEnd - CivilDay(occTxn.startDate)
           /\ occTxn.frequency \in MonthBased
                => Len(occurrences) * ClaimedMonths(occTxn.frequency)
                       <= MonthIndex(occRangeEnd)
                              - MonthIndex(CivilDay(occTxn.startDate))

\* C19 amended: the start date itself is an occurrence, so a recurring
\* transaction that starts on or before rangeEnd has exactly
\* floor((rangeEnd - startDate) / step) + 1 occurrences when the step is in
\* days, and at most floor(months from startDate's month to rangeEnd's
\* month / step) + 1 when the step is in months.
C19_CountAtMostQuotientPlusOne ==
    (OccDone /\ IsCalendarDate(occTxn.startDate)
             /\ CivilDay(occTxn.startDate) <= occRangeEnd)
        => /\ occTxn.frequency \in DayBased
                => Len(occurrences)
                       = ((occRangeEnd - CivilDay(occTxn.startDate))
                              \div ClaimedDays(occTxn.frequency)) + 1
           /\ occTxn.frequency \in MonthBased
                => Len(occurrences)
                       <= ((MonthIndex(occRangeEnd)
                               - MonthIndex(CivilDay(occTxn.startDate)))
                              \div ClaimedMonths(occTxn.frequency)) + 1

C19_Witness ==
    /\ OccDone /\ occTxn.frequency = "weekly"
    /\ occTxn.startDate = <<2023, 3, 31>>
    /\ occRangeEnd = DateUTC(2023, 3, 0)
    /\ occurrences = <<CivilDay(<<2023, 3, 31>>)>>

----------------------------------------------------------------------------
(* Properties of the ledger builder (checked under Spec)                   *)

Done == pc = "done"

\* how many occurrences of txn, generated up to the window end, fall on day d
OccurrencesOn(txn, d) ==
    LET occs == generateOccurrences(txn, EndUTC)
    IN Cardinality({k \in 1 .. Len(occs) : occs[k] = d})

\* how many occurrences of txn fall strictly before the window
OccurrencesBefore(txn, d) ==
    LET occs == generateOccurrences(txn, EndUTC)
    IN Cardinality({k \in 1 .. Len(occs) : occs[k] < d})

\* the sum of weight(j) * txns[j].amount over the transactions 1 .. n
RECURSIVE WeightedSum(_, _)
WeightedSum(weight, n) ==
    IF n = 0 THEN 0
    ELSE WeightedSum(weight, n - 1) + weight[n] * txns[n].amount

\* the amounts of the income occurrences of day d, added up
IncomeOn(d) ==
    WeightedSum([j \in 1 .. Len(txns) |->
                    IF txns[j].type = "income" THEN OccurrencesOn(txns[j], d) ELSE 0],
                Len(txns))

\* the signed amounts of all occurrences before day d, added up
NetBefore(d) ==
    WeightedSum([j \in 1 .. Len(txns) |->
                    IF txns[j].type = "income"
                    THEN OccurrencesBefore(txns[j], d)
                    ELSE 0 - OccurrencesBefore(txns[j], d)],
                Len(txns))

\* how many expense occurrences of day d carry this name and amount
ExpenseItemsOn(d, item) ==
    LET weight == [j \in 1 .. Len(txns) |->
                     IF /\ txns[j].type # "income"
                        /\ txns[j].name = item.name
                        /\ txns[j].amount = item.amount
                     THEN OccurrencesOn(txns[j], d) ELSE 0]
        RECURSIVE Total(_)
        Total(n) == IF n = 0 THEN 0 ELSE Total(n - 1) + weight[n]
    IN Total(Len(txns))

\* C1: the ledger has exactly one entry per calendar day of
\* [windowStart, windowEnd], ascending and one day apart: one entry when
\* the two are equal, none when windowStart > windowEnd.
C1_OneEntryPerDay ==
    Done => /\ Len(ledger) = (IF startDate <= endDate THEN endDate - startDate + 1 ELSE 0)
            /\ \A i \in 1 .. Len(ledger) : ledger[i].date = startDate + (i - 1)

C1_Witness ==
    /\ Done /\ Len(ledger) = 3
    /\ toDateInputValue(ledger[1].date) = <<2024, 2, 28>>
    /\ toDateInputValue(ledger[3].date) = <<2024, 3, 1>>

\* C2: balance continuity: the ending balance of every entry is the
\* starting balance of the next one.
C2_BalanceContinuity ==
    Done => \A i \in 1 .. Len(ledger) - 1 :
                ledger[i].endingBalance = ledger[i + 1].startingBalance

C2_Witness ==
    /\ Done /\ Len(ledger) >= 2
    /\ ledger[1].endingBalance # ledger[1].startingBalance
    /\ ledger[1].expenses # << >>

\* C3: in every entry totalIncome is the sum of the amounts of the income
\* occurrences of that day, and endingBalance is startingBalance +
\* totalIncome - (sum of the amounts in the expenses list), rounded to cents.
C3_EndingBalance ==
    Done => \A i \in 1 .. Len(ledger) :
                LET e == ledger[i]
                IN /\ e.totalIncome = IncomeOn(e.date)
                   /\ e.endingBalance =
                         RoundCents(e.startingBalance + e.totalIncome
                                      - SumAmounts(e.expenses))

\* C4: an occurrence before windowStart is never itemised in an entry and
\* never counted in a totalIncome: an entry lists no more expense items of
\* a name and amount than there are such occurrences on its own day, and
\* its totalIncome is the income of its own day.
C4_PreWindowFolded ==
    Done => \A i \in 1 .. Len(ledger) :
                LET e == ledger[i]
                IN /\ e.date >= startDate
                   /\ e.totalIncome = RoundCents(IncomeOn(e.date))
                   /\ \A k \in 1 .. Len(e.expenses) :
                         Cardinality({n \in 1 .. Len(e.expenses) :
                                         e.expenses[n] = e.expenses[k]})
                             <= ExpenseItemsOn(e.date, e.expenses[k])

C4_Witness ==
    /\ Done /\ Len(ledger) >= 1
    /\ \E j \in 1 .. Len(txns) :
          /\ txns[j].type = "expense"
          /\ OccurrencesBefore(txns[j], startDate) > 0
          /\ OccurrencesOn(txns[j], startDate) = 0
    /\ ledger[1].startingBalance # RoundCents(startingBalance)
    /\ ledger[1].expenses = << >>

\* C5: the starting balance of the first entry is the startingBalance
\* argument plus the amount of every income occurrence and minus the amount
\* of every expense occurrence before windowStart, rounded to cents.
C5_OpeningBalance ==
    (Done /\ Len(ledger) >= 1)
        => ledger[1].startingBalance =
               RoundCents(startingBalance + NetBefore(startDate))

\* the UTF-16 code unit of a letter: the capitals come before the small
\* letters
CodeUnit(c) == IF CaseOf(c) = 1 THEN 64 + LetterOf(c) ELSE 96 + LetterOf(c)

\* a <= b in the lexicographic order of the code units
RECURSIVE CodeUnitLeq(_, _)
CodeUnitLeq(a, b) ==
    IF a = << >> THEN TRUE
    ELSE IF b = << >> THEN FALSE
    ELSE IF CodeUnit(Head(a)) # CodeUnit(Head(b))
         THEN CodeUnit(Head(a)) < CodeUnit(Head(b))
         ELSE CodeUnitLeq(Tail(a), Tail(b))

\* the expense items of day d in the order of the transactions list
RECURSIVE ExpensesInListOrder(_, _)
ExpensesInListOrder(d, n) ==
    IF n = 0 THEN << >>
    ELSE ExpensesInListOrder(d, n - 1) \o
         (IF txns[n].type # "income"
          THEN [k \in 1 .. OccurrencesOn(txns[n], d) |->
                   [name |-> txns[n].name, amount |-> txns[n].amount]]
          ELSE << >>)

\* the items of list that carry this name, in their order in list
RECURSIVE WithName(_, _)
WithName(list, name) ==
    IF list = << >> THEN << >>
    ELSE (IF Head(list).name = name THEN <<Head(list)>> ELSE << >>)
             \o WithName(Tail(list), name)

\* C13: in every entry the expenses are in ascending order of their names
\* compared code unit by code unit (case-sensitive lexicographic), and
\* expenses with equal names keep the order of their transactions in the
\* input list.
C13_ExpensesCodeUnitOrder ==
    Done => \A i \in 1 .. Len(ledger) :
                LET e == ledger[i]
                IN /\ \A k \in 1 .. Len(e.expenses) - 1 :
                         CodeUnitLeq(e.expenses[k].name, e.expenses[k + 1].name)
                   /\ \A k \in 1 .. Len(e.expenses) :
                         WithName(e.expenses, e.expenses[k].name)
                             = WithName(ExpensesInListOrder(e.date, Len(txns)),
                                        e.expenses[k].name)

\* how many expense occurrences fall on day d
ExpenseCountOn(d) ==
    LET weight == [j \in 1 .. Len(txns) |->
                     IF txns[j].type # "income"
                     THEN OccurrencesOn(txns[j], d) ELSE 0]
        RECURSIVE Total(_)
        Total(n) == IF n = 0 THEN 0 ELSE Total(n - 1) + weight[n]
    IN Total(Len(txns))

\* C14: every entry itemises each expense occurrence of its day exactly
\* once, as the name and amount of its transaction, an amount of 0
\* included; the income occurrences of the day are added up in totalIncome
\* and none of them is an item of the expenses list.
C14_SameDayAllIncluded ==
    Done => \A i \in 1 .. Len(ledger) :
                LET e == ledger[i]
                IN /\ Len(e.expenses) = ExpenseCountOn(e.date)
                   /\ \A k \in 1 .. Len(e.expenses) :
                         /\ DOMAIN e.expenses[k] = {"name", "amount"}
                         /\ Cardinality({n \in 1 .. Len(e.expenses) :
                                            e.expenses[n] = e.expenses[k]})
                                = ExpenseItemsOn(e.date, e.expenses[k])
                   /\ e.totalIncome = RoundCents(IncomeOn(e.date))

C14_Witness ==
    /\ Done /\ Len(ledger) >= 1
    /\ \E i \in 1 .. Len(ledger) :
          /\ Len(ledger[i].expenses) = 2
          /\ ledger[i].expenses[1].amount = 0
          /\ ledger[i].expenses[2].amount > 0

ScenarioInputs ==
    /\ txns = << Txn("income",  SalaryName, 2000000, <<2024, 1, 1>>, "monthly"),
                 Txn("expense", RentName,   1500000, <<2024, 1, 1>>, "monthly") >>
    /\ startDate = DateUTC(2024, 0, 1)
    /\ endDate = DateUTC(2024, 1, 1)
    /\ startingBalance = 1000000

RentItem == [name |-> RentName, amount |-> 1500000]

\* C15: starting balance 1000, Salary 2000 and Rent 1500 both monthly from
\* 2024-01-01, window 2024-01-01..2024-02-01: 32 entries; 01-01 goes from
\* 1000 to 1500 with income 2000 and the Rent item; 01-02..01-31 stay at
\* 1500 with no income and no expenses; 02-01 goes from 1500 to 2000 with
\* income 2000 and the Rent item.
C15_Scenario ==
    (Done /\ ScenarioInputs)
        => /\ Len(ledger) = 32
           /\ \A i \in 1 .. 32 :
                 /\ toDateInputValue(ledger[i].date)
                        = (IF i = 32 THEN <<2024, 2, 1>> ELSE <<2024, 1, i>>)
                 /\ ledger[i].startingBalance = (IF i = 1 THEN 1000000 ELSE 1500000)
                 /\ ledger[i].totalIncome = (IF i \in {1, 32} THEN 2000000 ELSE 0)
                 /\ ledger[i].expenses = (IF i \in {1, 32} THEN <<RentItem>> ELSE << >>)
                 /\ ledger[i].endingBalance = (IF i = 32 THEN 2000000 ELSE 1500000)

C15_Witness ==
    /\ Done /\ ScenarioInputs
    /\ Len(ledger) = 32
    /\ ledger[32].endingBalance = 2000000

Stores == {account, persisted}

\* C16: every transaction amount and every starting balance held in a
\* store is a whole number of cents.
C16_StoredAmountsAreCents ==
    \A store \in Stores :
        /\ store.startingBalance % 10 = 0
        /\ \A i \in 1 .. Len(store.transactions) :
               store.transactions[i].amount % 10 = 0

\* C17: no stored transaction has an amount below zero.
C17_StoredAmountsNonNegative ==
    \A store \in Stores :
        \A i \in 1 .. Len(store.transactions) :
            store.transactions[i].amount >= 0

WritesInProgress == {i \in 1 .. Len(saves) : saves[i].status = "writing"}

\* C20: at no time are two writes of the data file in progress, and the
\* writes start in the order of the calls of saveState.
C20_WritesSerialized ==
    /\ Cardinality(WritesInProgress) <= 1
    /\ \A k \in 1 .. Len(writeLog) - 1 : writeLog[k] < writeLog[k + 1]

C20_Witness ==
    /\ Len(saves) = 3
    /\ saves[1].caller = 2
    /\ saves[1].status = "fulfilled"
    /\ saves[2].status = "writing"
    /\ saves[3].status = "pending"
    /\ writeLog = <<1, 2>>

\* by how many days the window start is moved earlier, or the window end
\* later
WindowShifts == {0, 1, 7}

\* C27: the entry of a day of the window (startingBalance, totalIncome,
\* expenses, endingBalance) is the entry the same day gets in every wider
\* window over the same starting balance and transactions.
C27_WindowIndependence ==
    Done => \A back \in WindowShifts, forth \in WindowShifts :
                LET wider == computeLedger(startDate - back, endDate + forth,
                                           startingBalance, txns)
                IN \A i \in 1 .. Len(ledger) : wider[i + back] = ledger[i]

----------------------------------------------------------------------------
(* Properties of the account controls (checked under SpecClient)           *)

\* C26: once initAccountControls has returned, and after every create,
\* select and delete event, accountOrder is non-empty and free of
\* duplicates, every id of accountOrder has an account, and
\* currentAccountId is an id of accountOrder.
C26_AccountOrderConsistent ==
    clientState.pc = "ready" =>
        LET order == clientState.accountOrder
        IN /\ order # << >>
           /\ \A j \in DOMAIN order, k \in DOMAIN order :
                  order[j] = order[k] => j = k
           /\ \A k \in DOMAIN order : order[k] \in clientState.accounts
           /\ Includes(order, clientState.currentAccountId)

----------------------------------------------------------------------------
(* Properties of the JSON-file server                                      *)

\* C21 (checked under SpecSave): a call of saveState made after a write
\* was rejected fails only if its own write was started and rejected.
C21_LaterSaveStartsItsWrite ==
    \A j \in DOMAIN saves :
        (saves[j].afterFailure /\ saves[j].status = "rejected")
            => Includes(writeLog, j)

\* the accounts of the array (its holes are not accounts)
Stored(list) == {k \in DOMAIN list : ~IsHole(list[k])}

\* from before to after only the account with this id changed: as many
\* accounts, every other account where it was with its id, name,
\* startingBalance and transactions, and the transactions the account had
\* are still transactions of it
OnlyAccountChanged(before, after, id) ==
    /\ Cardinality(Stored(after)) = Cardinality(Stored(before))
    /\ \A k \in Stored(before) :
          before[k].id # id =>
              /\ k \in Stored(after)
              /\ after[k].id = before[k].id
              /\ after[k].name = before[k].name
              /\ after[k].startingBalance = before[k].startingBalance
              /\ after[k].transactions = before[k].transactions
    /\ \A k \in Stored(before) :
          before[k].id = id =>
              \A t \in DOMAIN before[k].transactions :
                  \E j \in Stored(after) :
                      /\ after[j].id = id
                      /\ Includes(after[j].transactions,
                                  before[k].transactions[t])

\* C22 (checked under SpecServer): the step in which the handler of
\* PUT /api/accounts/:id or POST /api/accounts/:id/transactions applies its
\* change (the request is answered 200 or 201 once the write succeeds)
\* changes only the account whose id is :id, keeps the number of accounts,
\* and loses no transaction of the account.
C22_OnlyTargetAccountChanges ==
    [][\A r \in ServerRequests :
          (/\ reqPc[r] = "reading"
           /\ reqPc'[r] = "saving"
           /\ reqInfo[r].kind \in {"putAccount", "postTransaction"})
              => OnlyAccountChanged(accounts, accounts', reqInfo[r].target)]_vars

\* C24 (checked under SpecServer): when the only request made so far was
\* answered 500 because saveState failed, state.accounts is what it was
\* before the request.
C24_FailedSaveLeavesStateAlone ==
    \A r \in DOMAIN reqPc :
        (/\ reqPc[r] = "failed"
         /\ \A q \in DOMAIN reqPc : q # r => reqPc[q] = "received")
            => accounts = InitialAccounts

\* no handler is between its first step and its answer
NoRequestInFlight ==
    \A r \in DOMAIN reqPc : reqPc[r] \notin {"reading", "saving"}

NoWriteFailed == \A i \in DOMAIN saves : saves[i].status # "rejected"

\* C25 (checked under SpecServer): when no write has failed and every
\* request made has been answered, the data file holds, from the last
\* write on, the serialization of state.accounts.
C25_LastWriteIsFinalState ==
    (NoRequestInFlight /\ NoWriteFailed /\ writeLog # << >>)
        => dataFile = Serialize(accounts)

\* two requests were answered after two writes; the first write was of a
\* state the second request then changed
C25_Witness ==
    /\ NoRequestInFlight
    /\ Len(saves) = 2
    /\ saves[1].status = "fulfilled" /\ saves[2].status = "fulfilled"
    /\ saves[1].payload # saves[2].payload
    /\ reqPc[saves[1].caller] = "responded"
    /\ reqPc[saves[2].caller] = "responded"
    /\ dataFile = Serialize(accounts)
    /\ dataFile # Serialize(InitialAccounts)

----------------------------------------------------------------------------
(* Properties of the SQLite server (checked under SpecSqlite)              *)

\* no create or delete request is between its first statement and its
\* answer
NoStatementPending ==
    \A r \in DOMAIN sqlReq :
        sqlReq[r].pc \notin {"inserting", "selecting", "updating"}

\* C23: when every create and delete request made has been answered, the
\* positions of the stored accounts are pairwise distinct and are exactly
\* 0 .. n - 1 for n accounts.
C23_PositionsContiguous ==
    NoStatementPending =>
        /\ \A a \in rows, b \in rows : a.position = b.position => a = b
        /\ {row.position : row \in rows} = 0 .. Cardinality(rows) - 1

====
